---- MODULE Spec2Model ----
(***************************************************************************)
(* ByteSize and its conversions to and from apint::BitWidth, as defined in *)
(* cwe_checker_lib/src/intermediate_representation/mod.rs.                 *)
(*                                                                         *)
(* ByteSize is a newtype around u64.  Machine words are modelled with      *)
(* their width: every u64/usize operation is computed on the mathematical  *)
(* integers and then reduced as the hardware (or the overflow check of the *)
(* build) reduces it.  The width itself is scaled down from 64 bits to     *)
(* U64Bits bits so that the whole value range can be enumerated; the       *)
(* structure of the range is kept: byte counts from 2^(U64Bits-3) on       *)
(* overflow the multiplication by 8, bit counts above 2^UsizeBits - 8      *)
(* overflow the addition of 7.                                             *)
(***************************************************************************)
EXTENDS Integers

\* Width of u64, scaled (64 in the program).
U64Bits == 4

\* Width of usize; the same as u64 on the 64-bit targets the crate is built for.
UsizeBits == U64Bits

\* Largest number of arithmetic operators applied in one run.
MaxOps == 2

U64Modulus == 2 ^ U64Bits

UsizeModulus == 2 ^ UsizeBits

\* The values of u64, and so the counts a ByteSize can wrap.
U64 == 0 .. (U64Modulus - 1)

\* The values of apint::BitWidth: a usize that is never zero.
BitWidths == 1 .. (UsizeModulus - 1)

VARIABLES
    overflow_checks,  \* build profile: TRUE = overflow checks on (debug), FALSE = wrapping (release)
    prev,             \* the call before `last`
    last,             \* the most recent conversion call: function, argument, outcome
    bytes,            \* a ByteSize local, `bytes`
    ideal,            \* the integer that the operations on `bytes` give over the integers
    res,              \* the value returned by the last operation on `bytes`
    rhs,              \* the argument of the last operation on `bytes`
    op,               \* the last operation applied to `bytes`
    nops,             \* number of arithmetic operators applied so far
    panicked          \* the thread has panicked

vars == <<overflow_checks, prev, last, bytes, ideal, res, rhs, op, nops, panicked>>

convVars == <<prev, last>>

arithVars == <<bytes, ideal, res, rhs, op, nops>>

-----------------------------------------------------------------------------
(* Outcomes of a call: a returned value or a panic. *)

Returned(v) == [panicked |-> FALSE, val |-> v]

Panic == [panicked |-> TRUE, val |-> 0]

(* u64 `*`: panics on overflow when overflow checks are on, wraps otherwise. *)
MulU64(a, b) ==
    IF a * b < U64Modulus THEN Returned(a * b)
    ELSE IF overflow_checks THEN Panic
    ELSE Returned((a * b) % U64Modulus)

(* usize `+`: same overflow rule at the width of usize. *)
AddUsize(a, b) ==
    IF a + b < UsizeModulus THEN Returned(a + b)
    ELSE IF overflow_checks THEN Panic
    ELSE Returned((a + b) % UsizeModulus)

(* u64 `+` and `-`, used by the derived operators of ByteSize. *)
AddU64_saturating(a, b) ==
    IF a + b < U64Modulus THEN Returned(a + b) ELSE Returned(U64Modulus - 1)

AddU64(a, b) ==
    IF a + b < U64Modulus THEN Returned(a + b)
    ELSE IF overflow_checks THEN Panic
    ELSE Returned((a + b) % U64Modulus)

SubU64(a, b) ==
    IF a - b >= 0 THEN Returned(a - b)
    ELSE IF overflow_checks THEN Panic
    ELSE Returned((a - b) % U64Modulus)

(* The casts `as usize` and `as u64`: keep the low bits. *)
AsUsize(v) == v % UsizeModulus

AsU64(v) == v % U64Modulus

(* apint::BitWidth::from(usize) is BitWidth::new(width).unwrap(), and     *)
(* BitWidth::new rejects a width of zero.                                  *)
BitWidthFromUsize(width) ==
    IF width = 0 THEN Panic ELSE Returned(width)

(* ByteSize::new *)
ByteSizeNew(value) == value

(* impl From<ByteSize> for apint::BitWidth *)
BitWidthFromByteSize(bytesize) ==
    LET product == MulU64(bytesize, 8)
    IN  IF product.panicked THEN Panic
        ELSE BitWidthFromUsize(AsUsize(product.val))

(* impl From<apint::BitWidth> for ByteSize *)
ByteSizeFromBitWidth(bitwidth) ==
    LET sum == AddUsize(bitwidth, 7)
    IN  IF sum.panicked THEN Panic
        ELSE Returned(ByteSizeNew(AsU64(sum.val) \div 8))

(* ByteSize::as_bit_length *)
AsBitLength(self) ==
    LET product == MulU64(self, 8)
    IN  IF product.panicked THEN Panic
        ELSE Returned(AsUsize(product.val))

(* derived Ord on the single u64 field; Ordering is Less = -1, Equal = 0, *)
(* Greater = 1.                                                            *)
CmpByteSize(a, b) ==
    IF a < b THEN -1 ELSE IF a = b THEN 0 ELSE 1

-----------------------------------------------------------------------------
(* Conversion calls.  `last` and `prev` hold the two most recent calls of  *)
(* the thread; a panic ends the thread.                                    *)

NoCall == [fn |-> "none", arg |-> 0, panicked |-> FALSE, ret |-> 0]

Call(fn, arg, outcome) ==
    [fn |-> fn, arg |-> arg, panicked |-> outcome.panicked, ret |-> outcome.val]

Record(call) ==
    /\ prev' = last
    /\ last' = call
    /\ panicked' = call.panicked
    /\ UNCHANGED overflow_checks

\* ByteSize::new(value)
CallNew(value) ==
    /\ ~panicked
    /\ Record(Call("new", value, Returned(ByteSizeNew(value))))
    /\ UNCHANGED arithVars

\* let bits: BitWidth = bytesize.into()
CallIntoBitWidth(bytesize) ==
    /\ ~panicked
    /\ Record(Call("into_bitwidth", bytesize, BitWidthFromByteSize(bytesize)))
    /\ UNCHANGED arithVars

\* let bytes: ByteSize = bitwidth.into()
CallFromBitWidth(bitwidth) ==
    /\ ~panicked
    /\ Record(Call("from_bitwidth", bitwidth, ByteSizeFromBitWidth(bitwidth)))
    /\ UNCHANGED arithVars

\* bytesize.as_bit_length()
CallAsBitLength(bytesize) ==
    /\ ~panicked
    /\ Record(Call("as_bit_length", bytesize, AsBitLength(bytesize)))
    /\ UNCHANGED arithVars

Init ==
    /\ overflow_checks \in BOOLEAN
    /\ prev = NoCall
    /\ last = NoCall
    /\ bytes \in U64
    /\ ideal = bytes
    /\ res = [kind |-> "unit", val |-> 0]
    /\ rhs = 0
    /\ op = "none"
    /\ nops = 0
    /\ panicked = FALSE

InitConv ==
    /\ Init
    /\ bytes = 0

Next ==
    \/ \E value \in U64 : CallNew(value)
    \/ \E bytesize \in U64 : CallIntoBitWidth(bytesize)
    \/ \E bitwidth \in BitWidths : CallFromBitWidth(bitwidth)
    \/ \E bytesize \in U64 : CallAsBitLength(bytesize)

Spec == InitConv /\ [][Next]_vars

-----------------------------------------------------------------------------
(* Operators of ByteSize applied to the local `bytes`.  The derived binary *)
(* operators take both operands by value and return a new ByteSize; the    *)
(* derived compound assignments take `&mut self` and return ().  `res` is  *)
(* the value the last operation returned.  `ideal` follows the operations  *)
(* that produced `bytes` over the integers.                                *)

Value(kind, val) == [kind |-> kind, val |-> val]

Unit == Value("unit", 0)

\* The integer that the operations that produced `res` give over the integers.
IdealOfRes ==
    CASE op = "add" -> ideal + rhs
      [] op = "sub" -> ideal - rhs
      [] OTHER -> res.val

\* ByteSize::new(value)
New(value) ==
    /\ ~panicked
    /\ op' = "new"
    /\ rhs' = value
    /\ res' = Value("ByteSize", ByteSizeNew(value))
    /\ UNCHANGED <<overflow_checks, convVars, bytes, ideal, nops, panicked>>

\* let bytes = <the ByteSize just returned>
Let ==
    /\ ~panicked
    /\ res.kind = "ByteSize"
    /\ op' = "let"
    /\ rhs' = 0
    /\ res' = Unit
    /\ bytes' = res.val
    /\ ideal' = IdealOfRes
    /\ UNCHANGED <<overflow_checks, convVars, nops, panicked>>

Binary(name, value, outcome) ==
    /\ ~panicked
    /\ nops < MaxOps
    /\ nops' = nops + 1
    /\ op' = name
    /\ rhs' = value
    /\ panicked' = outcome.panicked
    /\ res' = IF outcome.panicked THEN Unit ELSE Value("ByteSize", outcome.val)
    /\ UNCHANGED <<overflow_checks, convVars, bytes, ideal>>

Assign(name, value, outcome, exact) ==
    /\ ~panicked
    /\ nops < MaxOps
    /\ nops' = nops + 1
    /\ op' = name
    /\ rhs' = value
    /\ panicked' = outcome.panicked
    /\ res' = Unit
    /\ IF outcome.panicked
         THEN UNCHANGED <<bytes, ideal>>
         ELSE bytes' = outcome.val /\ ideal' = exact
    /\ UNCHANGED <<overflow_checks, convVars>>

\* bytes + ByteSize(value)
Add_in_place(value) ==
    /\ ~panicked
    /\ nops < MaxOps
    /\ nops' = nops + 1
    /\ op' = "add"
    /\ rhs' = value
    /\ panicked' = AddU64(bytes, value).panicked
    /\ res' = IF panicked' THEN Unit ELSE Value("ByteSize", AddU64(bytes, value).val)
    /\ bytes' = IF panicked' THEN bytes ELSE AddU64(bytes, value).val
    /\ UNCHANGED <<overflow_checks, convVars, ideal>>

Add(value) == Binary("add", value, AddU64(bytes, value))

\* bytes - ByteSize(value)
Sub(value) == Binary("sub", value, SubU64(bytes, value))

\* bytes += ByteSize(value)
AddAssign(value) == Assign("add_assign", value, AddU64(bytes, value), ideal + value)

\* bytes -= ByteSize(value)
SubAssign(value) == Assign("sub_assign", value, SubU64(bytes, value), ideal - value)

\* bytes.cmp(&ByteSize(value))
Cmp(value) ==
    /\ ~panicked
    /\ op' = "cmp"
    /\ rhs' = value
    /\ res' = Value("Ordering", CmpByteSize(bytes, value))
    /\ UNCHANGED <<overflow_checks, convVars, bytes, ideal, nops, panicked>>

Convert(name, arg, kind, outcome) ==
    /\ ~panicked
    /\ op' = name
    /\ rhs' = arg
    /\ panicked' = outcome.panicked
    /\ res' = IF outcome.panicked THEN Unit ELSE Value(kind, outcome.val)
    /\ UNCHANGED <<overflow_checks, convVars, bytes, ideal, nops>>

\* let bits: BitWidth = bytes.into()
IntoBitWidth == Convert("into_bitwidth", 0, "BitWidth", BitWidthFromByteSize(bytes))

\* bytes.as_bit_length()
BitLength == Convert("as_bit_length", 0, "usize", AsBitLength(bytes))

\* ByteSize::from(bitwidth)
FromBitWidth(bitwidth) ==
    Convert("from_bitwidth", bitwidth, "ByteSize", ByteSizeFromBitWidth(bitwidth))

NextArith ==
    \/ \E value \in U64 : New(value)
    \/ Let
    \/ \E value \in U64 : Add(value)
    \/ \E value \in U64 : Sub(value)
    \/ \E value \in U64 : AddAssign(value)
    \/ \E value \in U64 : SubAssign(value)
    \/ \E value \in U64 : Cmp(value)
    \/ IntoBitWidth
    \/ BitLength
    \/ \E bitwidth \in BitWidths : FromBitWidth(bitwidth)

SpecArith == Init /\ [][NextArith]_vars

-----------------------------------------------------------------------------
(* Properties of the conversions, stated over the recorded calls. *)

ToBits == {"into_bitwidth", "as_bit_length"}

\* C1: for every ByteSize b, converting b to a bit-width and converting that
\* bit-width back to a ByteSize yields b again (stated for the calls that
\* return: the value that comes back is b).
C1_BytesRoundTrip ==
    ( /\ prev.fn = "into_bitwidth"
      /\ ~prev.panicked
      /\ last.fn = "from_bitwidth"
      /\ last.arg = prev.ret
      /\ ~last.panicked )
       => last.ret = prev.arg

\* C2: for every bit-width n, converting n to a ByteSize and that ByteSize
\* back to bits yields a bit count >= n, equal to n iff n is a multiple of 8.
\* (Stated for the calls that return.)
C2_BitsRoundTrip ==
    ( /\ prev.fn = "from_bitwidth"
      /\ ~prev.panicked
      /\ last.fn \in ToBits
      /\ last.arg = prev.ret
      /\ ~last.panicked )
       => /\ last.ret >= prev.arg
          /\ (last.ret = prev.arg) <=> (prev.arg % 8 = 0)

\* C3: converting a bit-width n to a ByteSize returns ceil(n/8): the least
\* byte count whose 8-fold is at least n (stated for the calls that return).
C3_RoundsUp ==
    (last.fn = "from_bitwidth" /\ ~last.panicked)
       => /\ 8 * last.ret >= last.arg
          /\ 8 * (last.ret - 1) < last.arg

\* C4: for every ByteSize with count v, what as_bit_length returns is v*8.
C4_TimesEight ==
    (last.fn = "as_bit_length" /\ ~last.panicked)
       => last.ret = last.arg * 8

\* C5: neither conversion between ByteSize and bit-width ever ends in an
\* error or abort, whatever the ByteSize (0 included) or the bit-width.
C5_NoErrorConditions ==
    (last.fn \in {"into_bitwidth", "from_bitwidth"}) => ~last.panicked

\* C6: as_bit_length and the conversion to a bit-width never return a result
\* that differs from the mathematical product 8*value.
C6_NoWrappedProduct ==
    (last.fn \in ToBits /\ ~last.panicked) => last.ret = 8 * last.arg

\* C9: as_bit_length(b) and the bit-width converted from b hold the same bit
\* count, and the two complete on exactly the same inputs.
C9_ToBitsAgree ==
    ( /\ prev.fn \in ToBits
      /\ last.fn \in ToBits
      /\ prev.fn # last.fn
      /\ prev.arg = last.arg )
       => /\ last.panicked = prev.panicked
          /\ last.ret = prev.ret

\* C10: both conversions preserve order: a <= b implies
\* as_bit_length(a) <= as_bit_length(b), and m <= n implies that the ByteSize
\* converted from m is <= the ByteSize converted from n.
C10_Monotone ==
    ( /\ prev.fn \in {"as_bit_length", "from_bitwidth"}
      /\ last.fn = prev.fn
      /\ ~prev.panicked
      /\ ~last.panicked
      /\ prev.arg <= last.arg )
       => prev.ret <= last.ret

-----------------------------------------------------------------------------
(* Properties of the operators of ByteSize. *)

ArithOps == {"add", "sub", "add_assign", "sub_assign"}

AssignOps == {"add_assign", "sub_assign"}

ByteSizeOps ==
    ArithOps \cup {"new", "cmp", "into_bitwidth", "as_bit_length", "from_bitwidth"}

\* The ordering of the counts a and b is the Ordering o.
OrderOfCounts(o, a, b) ==
    /\ (o = -1) <=> (a < b)
    /\ (o = 0) <=> (a = b)
    /\ (o = 1) <=> (a > b)

C8_NeverMutated ==
    [][(op' \in ByteSizeOps) => (bytes' = bytes)]_vars

\* C8 (amended): construction, the binary operators, comparison and the
\* conversions leave the existing ByteSize unchanged, and those that yield a
\* ByteSize return it as a new value; the compound assignments overwrite
\* their left operand in place with the result of the operator and return no
\* value.
C8_OnlyAssignMutates ==
    [][ /\ (op' \in ByteSizeOps \ AssignOps) => (bytes' = bytes)
        /\ (op' \in {"new", "add", "sub", "from_bitwidth"} /\ ~panicked')
              => (res'.kind = "ByteSize")
        /\ (op' \in AssignOps) => (res'.kind = "unit")
        /\ (op' = "add_assign" /\ ~panicked')
              => (bytes' = (bytes + rhs') % U64Modulus)
        /\ (op' = "sub_assign" /\ ~panicked')
              => (bytes' = (bytes - rhs') % U64Modulus)
      ]_vars

\* A binary operator has returned a new ByteSize that differs from its left
\* operand, which is still in place.
C8_Witness ==
    /\ op = "add"
    /\ res.kind = "ByteSize"
    /\ res.val # bytes

====
